---- MODULE Spec2Model ----
(***************************************************************************)
(* A model of the HKEX scraper pipeline: main.py (loader, chunk, pool,     *)
(* finalize), scraper.py (scrape_worker and its helpers) and io_utils.py   *)
(* (reset_temp_csv, write_row, sort_and_finalize_csv).                     *)
(*                                                                         *)
(* Text is modelled as a sequence of one-character strings, so that        *)
(* parsing, formatting and substring tests are computed, not assumed.      *)
(***************************************************************************)
EXTENDS Integers, Sequences, FiniteSets, TLC

\* ------------------------------------------------------------------ bounds

\* Most identifiers the range line of the ranges file spans.
MaxCodes == 3
\* Most threads of the pool in the general specification.
MaxWorkers == 2
\* Most polling passes that fit before the readiness deadline.
MaxPolls == 2

\* ------------------------------------------------------------------- text

Digit == {"0", "1", "2", "3", "4", "5", "6", "7", "8", "9"}

DigitVal(c) ==
    CASE c = "0" -> 0 [] c = "1" -> 1 [] c = "2" -> 2 [] c = "3" -> 3
      [] c = "4" -> 4 [] c = "5" -> 5 [] c = "6" -> 6 [] c = "7" -> 7
      [] c = "8" -> 8 [] c = "9" -> 9

DigitChar(d) == <<"0", "1", "2", "3", "4", "5", "6", "7", "8", "9">>[d + 1]

Min(a, b) == IF a <= b THEN a ELSE b

\* str(i) of a non-negative int.
RECURSIVE str(_)
str(n) == IF n < 10 THEN <<DigitChar(n)>>
          ELSE str(n \div 10) \o <<DigitChar(n % 10)>>

\* The value of a non-empty run of digits.
RECURSIVE DigitsValue(_)
DigitsValue(s) ==
    IF Len(s) = 0 THEN 0
    ELSE 10 * DigitsValue(SubSeq(s, 1, Len(s) - 1)) + DigitVal(s[Len(s)])

AllDigits(s) == Len(s) > 0 /\ \A i \in 1..Len(s) : s[i] \in Digit

\* s.strip() for the blank the model's alphabet has.
RECURSIVE strip(_)
strip(s) ==
    IF Len(s) = 0 THEN s
    ELSE IF s[1] = " " THEN strip(Tail(s))
    ELSE IF s[Len(s)] = " " THEN strip(SubSeq(s, 1, Len(s) - 1))
    ELSE s

\* needle in hay
Contains(hay, needle) ==
    \E i \in 1..(Len(hay) - Len(needle) + 1) :
        SubSeq(hay, i, i + Len(needle) - 1) = needle

\* int(s): [ok, val]. Python strips blanks and takes an optional sign.
int(s) ==
    LET t == strip(s)
        signed == Len(t) > 0 /\ t[1] \in {"+", "-"}
        body == IF signed THEN Tail(t) ELSE t
    IN  IF AllDigits(body)
        THEN [ok |-> TRUE,
              val |-> IF signed /\ t[1] = "-" THEN 0 - DigitsValue(body)
                      ELSE DigitsValue(body)]
        ELSE [ok |-> FALSE, val |-> 0]

\* ------------------------------------------------------------------ chunk

\* len // n: the size rounded down.
floor_div(len, n) == len \div n

\* ceil(len(lst) / n)
ceil_div(len, n) == (len + n - 1) \div n

\* Slices one item too long: lst[i:i + size + 1].
chunk_overlapping(lst, n) ==
    LET size == ceil_div(Len(lst), n)
    IN  IF size = 0 THEN [ok |-> FALSE, val |-> <<>>]
        ELSE [ok |-> TRUE,
              val |-> [k \in 1..ceil_div(Len(lst), size) |->
                          SubSeq(lst, (k - 1) * size + 1,
                                 Min(k * size + 1, Len(lst)))]]

\* list(chunk(lst, n)): [ok, val]; range() raises ValueError on a step of 0.
chunk(lst, n) ==
    LET size == ceil_div(Len(lst), n)
    IN  IF size = 0 THEN [ok |-> FALSE, val |-> <<>>]
        ELSE [ok |-> TRUE,
              val |-> [k \in 1..ceil_div(Len(lst), size) |->
                          SubSeq(lst, (k - 1) * size + 1,
                                 Min(k * size, Len(lst)))]]

\* ----------------------------------------------------------------- loader

\* The place of the first "-" of a line, 0 when it has none.
FirstDash(line) ==
    IF \E i \in 1..Len(line) : line[i] = "-"
    THEN CHOOSE i \in 1..Len(line) :
            line[i] = "-" /\ \A j \in 1..(i - 1) : line[j] # "-"
    ELSE 0

\* str(i) for i in range(start, end)
RECURSIVE range_codes(_, _)
range_codes(start, end) ==
    IF start >= end THEN <<>>
    ELSE <<str(start)>> \o range_codes(start + 1, end)

\* A loader without the test of start >= end: such a line gives no codes.
load_line_unchecked(raw) ==
    LET line == strip(raw)
        d == FirstDash(line)
        start == int(SubSeq(line, 1, d - 1))
        end == int(SubSeq(line, d + 1, Len(line)))
    IN  IF Len(line) = 0 \/ line[1] = "#" THEN [ok |-> TRUE, codes |-> <<>>]
        ELSE IF d = 0 THEN [ok |-> FALSE, codes |-> <<>>]
        ELSE IF ~start.ok \/ ~end.ok THEN [ok |-> FALSE, codes |-> <<>>]
        ELSE [ok |-> TRUE, codes |-> range_codes(start.val, end.val)]

\* One line of the ranges file: [ok, codes]; ok is FALSE where the code raises.
load_line(raw) ==
    LET line == strip(raw)
        d == FirstDash(line)
        start == int(SubSeq(line, 1, d - 1))
        end == int(SubSeq(line, d + 1, Len(line)))
    IN  IF Len(line) = 0 \/ line[1] = "#" THEN [ok |-> TRUE, codes |-> <<>>]
        ELSE IF d = 0 THEN [ok |-> FALSE, codes |-> <<>>]
        ELSE IF ~start.ok \/ ~end.ok THEN [ok |-> FALSE, codes |-> <<>>]
        ELSE IF start.val >= end.val THEN [ok |-> FALSE, codes |-> <<>>]
        ELSE [ok |-> TRUE, codes |-> range_codes(start.val, end.val)]

\* load_stock_codes_from_file over the lines of the file: [ok, codes].
RECURSIVE load_stock_codes_from_file(_)
load_stock_codes_from_file(lines) ==
    IF Len(lines) = 0 THEN [ok |-> TRUE, codes |-> <<>>]
    ELSE LET head == load_stock_codes_from_file(SubSeq(lines, 1, Len(lines) - 1))
             last == load_line(lines[Len(lines)])
         IN  IF head.ok /\ last.ok
             THEN [ok |-> TRUE, codes |-> head.codes \o last.codes]
             ELSE [ok |-> FALSE, codes |-> <<>>]

\* -------------------------------------------------------------------- csv

FIELDNAMES ==
    <<"CODE", "DATE", "OPEN", "INTRADAY_HIGH", "INTRADAY_LOW", "CLOSE", "P/E",
      "VOLUME", "STATUS">>

\* The six data columns of a row.
DataKeys == {"OPEN", "INTRADAY_HIGH", "INTRADAY_LOW", "CLOSE", "P/E", "VOLUME"}

\* The text of a column name, as writeheader() writes it.
KeyText(k) ==
    CASE k = "CODE" -> <<"C", "O", "D", "E">>
      [] k = "DATE" -> <<"D", "A", "T", "E">>
      [] k = "OPEN" -> <<"O", "P", "E", "N">>
      [] k = "INTRADAY_HIGH" -> 
            <<"I", "N", "T", "R", "A", "D", "A", "Y", "_", "H", "I", "G", "H">>
      [] k = "INTRADAY_LOW" -> 
            <<"I", "N", "T", "R", "A", "D", "A", "Y", "_", "L", "O", "W">>
      [] k = "CLOSE" -> <<"C", "L", "O", "S", "E">>
      [] k = "P/E" -> <<"P", "/", "E">>
      [] k = "VOLUME" -> <<"V", "O", "L", "U", "M", "E">>
      [] k = "STATUS" -> <<"S", "T", "A", "T", "U", "S">>

NA == <<"N", "/", "A">>
Success == <<"S", "u", "c", "c", "e", "s", "s">>
Error == <<"E", "r", "r", "o", "r">>
InvalidStockCode ==
    <<"I", "n", "v", "a", "l", "i", "d", "S", "t", "o", "c", "k", "C", "o", "d", "e">>

\* datetime.now().strftime("%Y%m%d"): the day of the run.
Today == <<"2", "0", "2", "6", "0", "1", "0", "2">>

\* DictWriter.writeheader(): one line holding the column names.
writeheader == [i \in 1..Len(FIELDNAMES) |-> KeyText(FIELDNAMES[i])]

\* DictWriter.writerow(row): one line holding the row's values in column order.
writerow(row) == [i \in 1..Len(FIELDNAMES) |-> row[FIELDNAMES[i]]]

\* ------------------------------------------------------ scraper.py helpers

\* The last place of the run of digits that starts at j (j - 1 when none).
RunEnd(t, j) ==
    CHOOSE k \in (j - 1)..Len(t) :
        /\ \A m \in j..k : t[m] \in Digit
        /\ (k = Len(t) \/ t[k + 1] \notin Digit)

\* re.match of  pre (\d+\.\d+) suf  at place i: the place after group 1's last
\* character, 0 when there is no match at i.
MatchAt(t, i, pre, suf) ==
    LET j == i + Len(pre)
        a == RunEnd(t, j)
        b == RunEnd(t, a + 2)
    IN  IF /\ j - 1 <= Len(t)
           /\ SubSeq(t, i, j - 1) = pre
           /\ a >= j
           /\ a + 1 <= Len(t) /\ t[a + 1] = "."
           /\ b >= a + 2
           /\ b + Len(suf) <= Len(t)
           /\ SubSeq(t, b + 1, b + Len(suf)) = suf
        THEN b
        ELSE 0

\* _extract(text, pattern) for pattern = pre (\d+\.\d+) suf, default "N/A".
_extract(text, pre, suf) ==
    IF Len(text) = 0 THEN NA
    ELSE IF \E i \in 1..Len(text) : MatchAt(text, i, pre, suf) > 0
    THEN LET i == CHOOSE i \in 1..Len(text) :
                     /\ MatchAt(text, i, pre, suf) > 0
                     /\ \A h \in 1..(i - 1) : MatchAt(text, h, pre, suf) = 0
         IN  SubSeq(text, i + Len(pre), MatchAt(text, i, pre, suf))
    ELSE NA

HKD == <<"H", "K", "$">>

upper(t) ==
    [i \in 1..Len(t) |->
        CASE t[i] = "k" -> "K" [] t[i] = "m" -> "M" [] t[i] = "b" -> "B"
          [] t[i] = "x" -> "X" [] OTHER -> t[i]]

lower(t) ==
    [i \in 1..Len(t) |->
        CASE t[i] = "P" -> "p" [] t[i] = "R" -> "r" [] t[i] = "K" -> "k"
          [] t[i] = "H" -> "h" [] t[i] = "M" -> "m" [] t[i] = "B" -> "b"
          [] OTHER -> t[i]]

RECURSIVE strip_leading_zeros(_)
strip_leading_zeros(d) ==
    IF Len(d) > 1 /\ d[1] = "0" THEN strip_leading_zeros(Tail(d)) ELSE d

RECURSIVE strip_trailing_zeros(_)
strip_trailing_zeros(d) ==
    IF Len(d) > 0 /\ d[Len(d)] = "0"
    THEN strip_trailing_zeros(SubSeq(d, 1, Len(d) - 1))
    ELSE d

Zeros(k) == [i \in 1..k |-> "0"]

\* The decimal ip.fp times 10^e, as [ip, fp]: the point moves e places right.
scale(ip, fp, e) ==
    LET padded == fp \o Zeros(e - Len(fp))
    IN  [ip |-> strip_leading_zeros(ip \o SubSeq(padded, 1, e)),
         fp |-> strip_trailing_zeros(SubSeq(padded, e + 1, Len(padded)))]

\* str(int(v)) if v.is_integer() else str(v), of the decimal n.ip "." n.fp.
\* Decimals are exact here: a binary float's rounding error is not modelled.
render_number(n) ==
    IF Len(n.fp) = 0 THEN n.ip ELSE n.ip \o <<".">> \o n.fp

\* _parse_volume(text)
_parse_volume(text) ==
    IF Len(text) = 0 THEN NA
    ELSE IF ~\E i \in 1..Len(text) : text[i] \in Digit THEN NA
    ELSE LET i == CHOOSE i \in 1..Len(text) :
                     /\ text[i] \in Digit
                     /\ \A h \in 1..(i - 1) : text[h] \notin Digit
             a == RunEnd(text, i)
             dot == a + 1 <= Len(text) /\ text[a + 1] = "."
             b == IF dot THEN RunEnd(text, a + 2) ELSE a
             t == upper(text)
             e == IF \E k \in 1..Len(t) : t[k] = "B" THEN 9
                  ELSE IF \E k \in 1..Len(t) : t[k] = "M" THEN 6
                  ELSE IF \E k \in 1..Len(t) : t[k] = "K" THEN 3
                  ELSE 0
         IN  render_number(scale(SubSeq(text, i, a), SubSeq(text, a + 2, b), e))

NotFoundUrl == <<"4", "0", "4", ".", "a", "s", "p", "x">>
NotFoundPhrase ==
    <<"p", "a", "g", "e", " ", "r", "e", "q", "u", "e", "s", "t", "e", "d">>

\* The test of the address alone.
_is_404_url_only(page) == Contains(page.url, NotFoundUrl)

\* _is_404(page): an exception of the page query is swallowed.
_is_404(page) ==
    IF Contains(page.url, NotFoundUrl) THEN TRUE
    ELSE IF ~page.content.ok THEN FALSE
    ELSE Contains(lower(page.content.text), NotFoundPhrase)

selectors == <<"col_open", "col_high", "col_low", "col_ask", "col_volume">>

\* A polling pass that a raising query would abort: the regions that hold the
\* marker before the first region whose query raises.
found_aborting(page) ==
    Cardinality({i \in 1..Len(selectors) :
        /\ \A j \in 1..i : page.regions[selectors[j]].ok
        /\ Contains(page.regions[selectors[i]].text, HKD)})

\* One polling pass of _wait_for_data: the regions that hold the marker; a
\* region whose query raises does not count.
found(page) ==
    Cardinality({i \in 1..Len(selectors) :
        /\ page.regions[selectors[i]].ok
        /\ Contains(page.regions[selectors[i]].text, HKD)})

\* ------------------------------------------------- pandas, as io_utils uses it

\* The code point of a character of the model's alphabet (str comparison).
Ord(c) ==
    CASE c = " " -> 32 [] c = "#" -> 35 [] c = "$" -> 36 [] c = "+" -> 43
      [] c = "-" -> 45 [] c = "." -> 46 [] c = "/" -> 47
      [] c \in Digit -> 48 + DigitVal(c)
      [] c = "A" -> 65 [] c = "B" -> 66 [] c = "C" -> 67 [] c = "D" -> 68
      [] c = "E" -> 69 [] c = "H" -> 72 [] c = "K" -> 75 [] c = "M" -> 77
      [] c = "N" -> 78 [] c = "O" -> 79 [] c = "S" -> 83 [] c = "X" -> 88
      [] c = "_" -> 95 [] c = "a" -> 97 [] c = "b" -> 98 [] c = "c" -> 99
      [] c = "e" -> 101 [] c = "k" -> 107 [] c = "m" -> 109 [] c = "o" -> 111
      [] c = "r" -> 114 [] c = "s" -> 115 [] c = "u" -> 117 [] c = "x" -> 120
      [] OTHER -> 127

\* a <= b for str
RECURSIVE TextLeq(_, _)
TextLeq(a, b) ==
    IF Len(a) = 0 THEN TRUE
    ELSE IF Len(b) = 0 THEN FALSE
    ELSE IF a[1] = b[1] THEN TextLeq(Tail(a), Tail(b))
    ELSE Ord(a[1]) < Ord(b[1])

\* read_csv's default missing-value markers that the alphabet can spell.
IsNaText(t) == t = NA \/ t = <<>>

IsIntText(t) ==
    \/ AllDigits(t)
    \/ Len(t) > 1 /\ t[1] = "-" /\ AllDigits(Tail(t))

\* digits "." digits*
IsDecimalText(t) ==
    \E d \in 2..Len(t) :
        /\ t[d] = "."
        /\ AllDigits(SubSeq(t, 1, d - 1))
        /\ \A m \in (d + 1)..Len(t) : t[m] \in Digit

\* A parsed number: [neg, ip, fp], the decimal ip "." fp without padding zeros.
Number(t) ==
    IF IsIntText(t)
    THEN [neg |-> t[1] = "-",
          ip |-> strip_leading_zeros(IF t[1] = "-" THEN Tail(t) ELSE t),
          fp |-> <<>>]
    ELSE LET d == CHOOSE d \in 2..Len(t) : t[d] = "."
         IN  [neg |-> FALSE,
              ip |-> strip_leading_zeros(SubSeq(t, 1, d - 1)),
              fp |-> strip_trailing_zeros(SubSeq(t, d + 1, Len(t)))]

\* The dtype read_csv infers for a column of texts.
dtype(col) ==
    IF Len(col) = 0 THEN "object"
    ELSE IF \A i \in 1..Len(col) : IsIntText(col[i]) THEN "int64"
    ELSE IF \A i \in 1..Len(col) :
                IsIntText(col[i]) \/ IsDecimalText(col[i]) \/ IsNaText(col[i])
    THEN "float64"
    ELSE "object"

IsZero(n) == n.ip = <<"0">> /\ n.fp = <<>>

\* repr of a float: always with a fractional part.
float_repr(n) ==
    LET body == n.ip \o <<".">> \o (IF n.fp = <<>> THEN <<"0">> ELSE n.fp)
    IN  IF n.neg /\ ~IsZero(n) THEN <<"-">> \o body ELSE body

int_repr(n) == IF n.neg /\ ~IsZero(n) THEN <<"-">> \o n.ip ELSE n.ip

\* What to_csv writes for one value of a column that was read with dtype dt.
to_csv_value(t, dt) ==
    IF dt = "int64" THEN int_repr(Number(t))
    ELSE IF IsNaText(t) THEN <<>>
    ELSE IF dt = "float64" THEN float_repr(Number(t))
    ELSE t

\* The place of a column in the header line, 0 when it is not there.
ColumnOf(columns, name) ==
    IF \E i \in 1..Len(columns) : columns[i] = name
    THEN CHOOSE i \in 1..Len(columns) :
            columns[i] = name /\ \A h \in 1..(i - 1) : columns[h] # name
    ELSE 0

\* The column of a frame's rows at place c.
Column(rows, c) == [i \in 1..Len(rows) |-> rows[i][c]]

\* The key of a CODE column read and sorted as text.
code_key_as_text(t, dt, has_nan) ==
    IF IsNaText(t) THEN [kind |-> "nan"] ELSE [kind |-> "str", t |-> t]

\* The sort key of df["CODE"] after the attempted astype(int): an int64 column
\* stays, a float64 column with no missing value is truncated, anything else
\* keeps its dtype (the failed conversion is passed over).
code_key(t, dt, has_nan) ==
    IF dt = "int64" THEN [kind |-> "num", n |-> Number(t)]
    ELSE IF dt = "float64" /\ ~has_nan
    THEN [kind |-> "num", n |-> [Number(t) EXCEPT !.fp = <<>>]]
    ELSE IF IsNaText(t) THEN [kind |-> "nan"]
    ELSE IF dt = "float64" THEN [kind |-> "num", n |-> Number(t)]
    ELSE [kind |-> "str", t |-> t]

\* a <= b for two non-negative decimals.
MagLeq(a, b) ==
    IF Len(a.ip) # Len(b.ip) THEN Len(a.ip) < Len(b.ip)
    ELSE IF a.ip # b.ip THEN TextLeq(a.ip, b.ip)
    ELSE TextLeq(a.fp, b.fp)

NumLeq(a, b) ==
    LET an == a.neg /\ ~IsZero(a)
        bn == b.neg /\ ~IsZero(b)
    IN  IF an /\ ~bn THEN TRUE
        ELSE IF ~an /\ bn THEN FALSE
        ELSE IF an THEN MagLeq(b, a)
        ELSE MagLeq(a, b)

\* k1 <= k2 in sort_values' ascending order, missing values last.
KeyLeq(k1, k2) ==
    IF k2.kind = "nan" THEN TRUE
    ELSE IF k1.kind = "nan" THEN FALSE
    ELSE IF k1.kind = "num" THEN NumLeq(k1.n, k2.n)
    ELSE TextLeq(k1.t, k2.t)

\* Every place x may take in the sorted s: rows of equal key come in no
\* promised order (sort_values' default kind is not stable).
Insertions(s, x) ==
    {[i \in 1..(Len(s) + 1) |->
        IF i < p THEN s[i] ELSE IF i = p THEN x ELSE s[i - 1]] :
     p \in {q \in 1..(Len(s) + 1) :
              /\ \A h \in 1..(q - 1) : KeyLeq(s[h].key, x.key)
              /\ \A h \in q..Len(s) : KeyLeq(x.key, s[h].key)}}

\* A sort that leaves the rows in the order of the store.
sort_values_as_stored(rows) == {rows}

\* The orders sort_values(by=["CODE"]) may produce for keyed rows.
RECURSIVE sort_values(_)
sort_values(rows) ==
    IF Len(rows) = 0 THEN {<<>>}
    ELSE UNION {Insertions(s, rows[Len(rows)]) :
                    s \in sort_values(SubSeq(rows, 1, Len(rows) - 1))}

\* --------------------------------------------------- sort_and_finalize_csv

\* read_csv, astype(int), sort_values and to_csv over the lines of the temp
\* CSV: [ok, outs]. ok is FALSE where pandas raises before anything is
\* written (an empty file, no CODE column); outs are the line sequences
\* to_csv may write.
finalize_frame(lines) ==
    IF Len(lines) = 0 THEN [ok |-> FALSE, outs |-> {}]
    ELSE LET columns == lines[1]
             rows == Tail(lines)
             c == ColumnOf(columns, KeyText("CODE"))
             dt == [k \in 1..Len(columns) |-> dtype(Column(rows, k))]
             has_nan == \E i \in 1..Len(rows) : IsNaText(rows[i][c])
             keyed == [i \in 1..Len(rows) |->
                          [key |-> code_key(rows[i][c], dt[c], has_nan),
                           out |-> [k \in 1..Len(columns) |->
                                       IF k = c /\ dt[c] = "float64" /\ ~has_nan
                                       THEN int_repr(code_key(rows[i][c], dt[c],
                                                              has_nan).n)
                                       ELSE to_csv_value(rows[i][k], dt[k])]]]
         IN  IF c = 0 THEN [ok |-> FALSE, outs |-> {}]
             ELSE [ok |-> TRUE,
                   outs |-> {<<columns>> \o [i \in 1..Len(srt) |-> srt[i].out] :
                                srt \in sort_values(keyed)}]

\* ------------------------------------------------------- the browser stub

Present(text) == [ok |-> TRUE, text |-> text]
\* A region whose locator query times out.
Absent == [ok |-> FALSE, text |-> <<>>]

Regions(o, h, l, a, pe, v) ==
    [col_open |-> o, col_high |-> h, col_low |-> l, col_ask |-> a,
     col_pe |-> pe, col_volume |-> v]

QuoteUrl == <<"s", "y", "m">>
QuoteText == <<"q", "u", "o", "t", "e">>

PriceA == <<"H", "K", "$", "1", ".", "5", "0">>
PriceB == <<"H", "K", "$", "1", "2", ".", "2", "5">>
RatioA == <<"8", ".", "4", "0", "x">>
VolumeA == <<"3", ".", "5", "M">>
MarkerOnly == <<"H", "K", "$", "-">>

\* A quote page with all six regions filled.
FullPage ==
    [goto |-> "ok", url |-> QuoteUrl, content |-> Present(QuoteText),
     regions |-> Regions(Present(PriceA), Present(PriceB), Present(PriceA),
                         Present(PriceB), Present(RatioA), Present(VolumeA))]

\* The redirect to the error page.
NotFoundPage ==
    [goto |-> "ok", url |-> NotFoundUrl, content |-> Present(<<>>),
     regions |-> Regions(Absent, Absent, Absent, Absent, Absent, Absent)]

\* An error notice served at the quote's own address, over the quote layout.
NotFoundTextPage ==
    [goto |-> "ok", url |-> QuoteUrl,
     content |-> Present(<<"P">> \o Tail(NotFoundPhrase)),
     regions |-> Regions(Present(PriceA), Present(PriceB), Present(PriceA),
                         Present(PriceB), Present(RatioA), Present(VolumeA))]

\* Navigation runs into its timeout.
TimeoutPage ==
    [goto |-> "timeout", url |-> QuoteUrl, content |-> Absent,
     regions |-> Regions(Absent, Absent, Absent, Absent, Absent, Absent)]

\* Navigation fails with another error.
BrokenPage ==
    [goto |-> "error", url |-> QuoteUrl, content |-> Absent,
     regions |-> Regions(Absent, Absent, Absent, Absent, Absent, Absent)]

\* A quote page whose regions never fill.
EmptyPage ==
    [goto |-> "ok", url |-> QuoteUrl, content |-> Present(QuoteText),
     regions |-> Regions(Present(<<>>), Present(<<>>), Present(<<>>),
                         Present(<<>>), Absent, Absent)]

\* A quote page of a suspended stock: the marker with no price after it.
SuspendedPage ==
    [goto |-> "ok", url |-> QuoteUrl, content |-> Present(QuoteText),
     regions |-> Regions(Present(MarkerOnly), Present(MarkerOnly),
                         Present(MarkerOnly), Present(MarkerOnly),
                         Absent, Present(<<>>))]

\* A quote page with the high region left out.
PartialPage ==
    [goto |-> "ok", url |-> QuoteUrl, content |-> Absent,
     regions |-> Regions(Present(PriceA), Absent, Present(PriceA),
                         Present(PriceB), Present(RatioA), Present(VolumeA))]

\* Texts of the volume region, each with the volume that is to be read from
\* it: the number times the unit at its end (B, M, K in either case, or none),
\* as an integer when it is whole, and "N/A" with no number.
VolumeCases ==
    <<[name |-> "volume_1", text |-> <<"3", ".", "5", "M">>,
       claimed |-> <<"3", "5", "0", "0", "0", "0", "0">>],
      [name |-> "volume_2", text |-> <<"1", ".", "2", "B">>,
       claimed |-> <<"1", "2", "0", "0", "0", "0", "0", "0", "0", "0">>],
      [name |-> "volume_3", text |-> <<"5", "0", "0", "K">>,
       claimed |-> <<"5", "0", "0", "0", "0", "0">>],
      [name |-> "volume_4", text |-> <<"2", ".", "5", "k">>,
       claimed |-> <<"2", "5", "0", "0">>],
      [name |-> "volume_5", text |-> <<"0", ".", "5", "m">>,
       claimed |-> <<"5", "0", "0", "0", "0", "0">>],
      [name |-> "volume_6", text |-> <<"1", "2", "3", "4">>,
       claimed |-> <<"1", "2", "3", "4">>],
      [name |-> "volume_7", text |-> <<"1", "2", ".", "5">>,
       claimed |-> <<"1", "2", ".", "5">>],
      [name |-> "volume_8", text |-> <<"4", "0", ".", "0">>,
       claimed |-> <<"4", "0">>],
      [name |-> "volume_9", text |-> <<>>,
       claimed |-> NA],
      [name |-> "volume_10", text |-> <<"-">>,
       claimed |-> NA],
      [name |-> "volume_11", text |-> <<"n", ".", "a", ".">>,
       claimed |-> NA],
      [name |-> "volume_12", text |-> <<"H", "K", "$", "5", "0", "0">>,
       claimed |-> <<"5", "0", "0">>]>>

\* A full quote page with the text of a volume case in its volume region.
VolumePage(name) ==
    LET k == CHOOSE k \in 1..Len(VolumeCases) : VolumeCases[k].name = name
    IN  [FullPage EXCEPT !.regions.col_volume = Present(VolumeCases[k].text)]

\* A full quote page but for the volume region, whose query times out.
NoVolumePage == [FullPage EXCEPT !.regions.col_volume = Absent]

\* A quote page with the marker in the open region alone.
OneMarkerPage ==
    [goto |-> "ok", url |-> QuoteUrl, content |-> Present(QuoteText),
     regions |-> Regions(Present(PriceA), Present(<<>>), Absent,
                         Present(<<>>), Absent, Present(VolumeA))]

\* A quote page with the marker in the low and ask regions alone, the queries
\* of the open and high regions timing out.
TwoMarkersPage ==
    [goto |-> "ok", url |-> QuoteUrl, content |-> Present(QuoteText),
     regions |-> Regions(Absent, Absent, Present(PriceA),
                         Present(PriceB), Absent, Present(<<>>))]

\* The stub's pages by name.
Page(name) ==
    CASE name = "full" -> FullPage
      [] name = "not_found" -> NotFoundPage
      [] name = "not_found_text" -> NotFoundTextPage
      [] name = "timeout" -> TimeoutPage
      [] name = "broken" -> BrokenPage
      [] name = "empty" -> EmptyPage
      [] name = "suspended" -> SuspendedPage
      [] name = "partial" -> PartialPage
      [] name = "no_volume" -> NoVolumePage
      [] name = "one_marker" -> OneMarkerPage
      [] name = "two_markers" -> TwoMarkersPage
      [] name = "late" -> FullPage
      [] OTHER -> VolumePage(name)

\* The page as a polling pass sees it: the "late" page fills its regions by
\* script, and shows them empty until the last pass the deadline allows.
PageAt(name, pass) ==
    IF name = "late" /\ pass < MaxPolls THEN EmptyPage ELSE Page(name)

AllPages ==
    {"full", "not_found", "not_found_text", "timeout", "broken", "empty",
     "suspended", "partial"}

\* The steps of a worker that the stub may make raise.
AllFaults == {"launch", "new_page", "close_page", "close_browser"}

\* ------------------------------------------------------------------ state

VARIABLES
    ranges_file,    \* the lines of stock_ranges.txt
    max_workers,    \* the size of the pool
    stub,           \* the browser stub: [faults, site, default]
    temp,           \* stock_data_temp.csv: [exists, lines]
    final,          \* stock_data.csv: [exists, lines]
    _csv_lock,      \* the threads that hold io_utils._csv_lock
    print_lock,     \* the threads that hold scraper.print_lock
    main,           \* the main thread: its place in main() and its locals
    worker,         \* the submitted scrape_worker calls, in submit order
    appended        \* history: the write_row calls that returned since the
                    \* reset: [w, page, row], the caller, the page it was
                    \* on and the row it handed over

vars ==
    <<ranges_file, max_workers, stub, temp, final, _csv_lock, print_lock, main,
      worker, appended>>

\* The main thread's id; worker k runs on thread k.
MainThread == 0

Keys == {FIELDNAMES[i] : i \in 1..Len(FIELDNAMES)}

NoFile == [exists |-> FALSE, lines |-> <<>>]

\* The data dict at the top of an iteration of scrape_worker.
NewData(stock_code) ==
    [k \in Keys |->
        IF k = "CODE" THEN stock_code
        ELSE IF k = "DATE" THEN Today
        ELSE IF k = "STATUS" THEN Success
        ELSE NA]

NoData == [k \in Keys |-> <<>>]

\* A scrape_worker call as executor.submit leaves it.
NewWorker(stock_codes) ==
    [pc |-> "launch", stock_codes |-> stock_codes, i |-> 1, data |-> NoData,
     page |-> "none", polls |-> 0, handler |-> "try", success |-> 0,
     fail |-> 0, file_exists |-> FALSE, buf |-> <<>>, browser |-> "none"]

\* The pages, by name, the stub may serve for a code.
PagesFor(code) ==
    IF code \in DOMAIN stub.site THEN stub.site[code] ELSE stub.default

\* Whether the stub may make a step raise.
MayRaise(step) == IF step \in stub.faults THEN {FALSE, TRUE} ELSE {FALSE}

\* A pool that reports every future as done at once.
Unawaited(w) == TRUE

\* A future is done: its call returned or raised.
Finished(w) == worker[w].pc \in {"returned", "raised"}

\* A lock that excludes nobody.
NoLock(lock) == TRUE

\* threading.Lock: acquire() goes through only while nobody holds the lock.
CanAcquire(lock) == lock = {}

RangeLine(start, end) == str(start) \o <<"-">> \o str(end)

\* A file object opened with mode "w": the buffer replaces the file.
truncate(lines, buf) == buf

\* A file object opened with mode "a": closing it puts the buffer at the end
\* of the file.
flush(lines, buf) == lines \o buf

\* What an earlier run may have left in the working directory.
StaleRow == writerow([NewData(<<"7">>) EXCEPT !["OPEN"] = <<"1", ".", "5", "0">>])
StaleTemp == [exists |-> TRUE, lines |-> <<writeheader, StaleRow>>]
StaleFinal == [exists |-> TRUE, lines |-> <<writeheader, StaleRow>>]

TypeOK ==
    /\ main.pc \in {"load", "reset_lock", "reset", "chunk", "submit", "collect",
                    "shutdown", "finalize", "fin_read", "fin_write",
                    "fin_remove", "done", "crashed"}
    /\ \A w \in 1..Len(worker) :
          worker[w].pc \in {"launch", "loop", "goto", "is404", "wait", "extract",
                            "print_lock", "print", "wr_lock", "wr_isfile",
                            "wr_open", "wr_close", "finally", "returned",
                            "raised"}
    /\ Cardinality(_csv_lock) <= 1
    /\ Cardinality(print_lock) <= 1

InitMain ==
    [pc |-> "load", stock_codes |-> <<>>, chunks |-> <<>>, total_success |-> 0,
     total_fail |-> 0, consumed |-> {}, error |-> "none", df |-> <<>>,
     finalized |-> "none"]

Init ==
    /\ ranges_file \in
          {<<>>} \cup {<<RangeLine(9, e)>> : e \in 9..(9 + MaxCodes)}
    /\ max_workers \in 1..MaxWorkers
    /\ stub = [faults |-> AllFaults, site |-> <<>>, default |-> AllPages]
    /\ temp \in {NoFile, StaleTemp}
    /\ final \in {NoFile, StaleFinal}
    /\ _csv_lock = {}
    /\ print_lock = {}
    /\ main = InitMain
    /\ worker = <<>>
    /\ appended = <<>>

\* ------------------------------------------------------------------- main

\* main.py 53: stock_codes = load_stock_codes_from_file(RANGES_FILE)
M_Load ==
    /\ main.pc = "load"
    /\ LET r == load_stock_codes_from_file(ranges_file)
       IN  main' = IF r.ok
                   THEN [main EXCEPT !.pc = "reset_lock", !.stock_codes = r.codes]
                   ELSE [main EXCEPT !.pc = "crashed", !.error = "load"]
    /\ UNCHANGED <<ranges_file, max_workers, stub, temp, final, _csv_lock,
                   print_lock, worker, appended>>

\* reset_temp_csv: with _csv_lock
M_ResetLock ==
    /\ main.pc = "reset_lock"
    /\ CanAcquire(_csv_lock)
    /\ _csv_lock' = _csv_lock \cup {MainThread}
    /\ main' = [main EXCEPT !.pc = "reset"]
    /\ UNCHANGED <<ranges_file, max_workers, stub, temp, final, print_lock,
                   worker, appended>>

\* A reset that leaves the temp CSV of an earlier run in place.
reset_temp_csv_keeping(file) == file

\* io_utils.py 30-32: if os.path.exists(CSV_TEMP_PATH): os.remove(...)
reset_temp_csv(file) == IF file.exists THEN NoFile ELSE file

\* reset_temp_csv: remove the temp CSV if it exists, and release the lock
M_Reset ==
    /\ main.pc = "reset"
    /\ temp' = reset_temp_csv(temp)
    /\ appended' = <<>>
    /\ _csv_lock' = _csv_lock \ {MainThread}
    /\ main' = [main EXCEPT !.pc = "chunk"]
    /\ UNCHANGED <<ranges_file, max_workers, stub, final, print_lock, worker>>

\* main.py 59: chunks = list(chunk(stock_codes, max_workers))
M_Chunk ==
    /\ main.pc = "chunk"
    /\ LET r == chunk(main.stock_codes, max_workers)
       IN  main' = IF r.ok
                   THEN [main EXCEPT !.pc = "submit", !.chunks = r.val]
                   ELSE [main EXCEPT !.pc = "crashed", !.error = "chunk"]
    /\ UNCHANGED <<ranges_file, max_workers, stub, temp, final, _csv_lock,
                   print_lock, worker, appended>>

\* main.py 65-68: executor.submit(scrape_worker, c, base_url) for the next chunk
M_Submit ==
    /\ main.pc = "submit"
    /\ Len(worker) < Len(main.chunks)
    /\ worker' = Append(worker, NewWorker(main.chunks[Len(worker) + 1]))
    /\ main' = [main EXCEPT
                  !.pc = IF Len(worker) + 1 = Len(main.chunks)
                         THEN "collect" ELSE "submit"]
    /\ UNCHANGED <<ranges_file, max_workers, stub, temp, final, _csv_lock,
                   print_lock, appended>>

\* main.py 70-73: the next future as_completed yields, and f.result(), which
\* raises what the call raised
M_Collect(w) ==
    /\ main.pc = "collect"
    /\ w \in (1..Len(worker)) \ main.consumed
    /\ Finished(w)
    /\ main' = IF worker[w].pc = "raised"
               THEN [main EXCEPT !.pc = "shutdown", !.error = "worker"]
               ELSE [main EXCEPT
                       !.total_success = @ + worker[w].success,
                       !.total_fail = @ + worker[w].fail,
                       !.consumed = @ \cup {w},
                       !.pc = IF main.consumed \cup {w} = 1..Len(worker)
                              THEN "shutdown" ELSE "collect"]
    /\ UNCHANGED <<ranges_file, max_workers, stub, temp, final, _csv_lock,
                   print_lock, worker, appended>>

\* main.py 64: leaving the with block is executor.shutdown(wait=True); an
\* exception of f.result() then goes on out of main
M_Shutdown ==
    /\ main.pc = "shutdown"
    /\ \A w \in 1..Len(worker) : Finished(w)
    /\ main' = [main EXCEPT !.pc = IF main.error = "none" THEN "finalize" ELSE "crashed"]
    /\ UNCHANGED <<ranges_file, max_workers, stub, temp, final, _csv_lock,
                   print_lock, worker, appended>>

\* Counts that take the header line for a row.
finalizer_counts_with_header(lines) ==
    [total |-> Len(lines),
     success |-> Cardinality({i \in 1..Len(lines) : lines[i][9] = Success}),
     error |-> Cardinality({i \in 1..Len(lines) : lines[i][9] = Error})]

\* io_utils.py 66-68: len(df_sorted) and the sums over df_sorted["STATUS"],
\* of the frame given as its header line and its rows.
finalizer_counts(lines) ==
    LET c == ColumnOf(lines[1], KeyText("STATUS"))
    IN  [total |-> Len(lines) - 1,
         success |->
            Cardinality({i \in 2..Len(lines) : lines[i][c] = Success}),
         error |-> Cardinality({i \in 2..Len(lines) : lines[i][c] = Error})]

\* -------------------------------------------- sort_and_finalize_csv, steps

UNCHANGED_ByFinalizer ==
    UNCHANGED <<ranges_file, max_workers, stub, _csv_lock, print_lock, worker,
                appended>>

\* A finalizer that reports success when it finds no temp CSV, and leaves an
\* empty final file.
F_Exists_True ==
    /\ main.pc = "finalize"
    /\ main' = IF temp.exists
               THEN [main EXCEPT !.pc = "fin_read"]
               ELSE [main EXCEPT !.pc = "done", !.finalized = "True"]
    /\ final' = IF temp.exists THEN final ELSE [exists |-> TRUE, lines |-> <<>>]
    /\ UNCHANGED temp
    /\ UNCHANGED_ByFinalizer

\* io_utils.py 49-51: no temp CSV: log the error and return False
F_Exists ==
    /\ main.pc = "finalize"
    /\ main' = IF temp.exists
               THEN [main EXCEPT !.pc = "fin_read"]
               ELSE [main EXCEPT !.pc = "done", !.finalized = "False"]
    /\ UNCHANGED <<temp, final>>
    /\ UNCHANGED_ByFinalizer

\* io_utils.py 53: df = pd.read_csv(CSV_TEMP_PATH)
F_Read ==
    /\ main.pc = "fin_read"
    /\ main' = IF temp.exists /\ Len(temp.lines) > 0
               THEN [main EXCEPT !.pc = "fin_write", !.df = temp.lines]
               ELSE [main EXCEPT !.pc = "done", !.finalized = "False"]
    /\ UNCHANGED <<temp, final>>
    /\ UNCHANGED_ByFinalizer

\* io_utils.py 55-62: astype(int) if it can, sort_values, to_csv
F_Write ==
    /\ main.pc = "fin_write"
    /\ LET r == finalize_frame(main.df)
       IN  IF r.ok
           THEN /\ \E out \in r.outs : final' = [exists |-> TRUE, lines |-> out]
                /\ main' = [main EXCEPT !.pc = "fin_remove"]
           ELSE /\ final' = final
                /\ main' = [main EXCEPT !.pc = "done", !.finalized = "False"]
    /\ UNCHANGED temp
    /\ UNCHANGED_ByFinalizer

\* io_utils.py 64-71: os.remove(CSV_TEMP_PATH), the counts, return True
F_Remove ==
    /\ main.pc = "fin_remove"
    /\ temp' = NoFile
    /\ main' = IF temp.exists /\ ColumnOf(main.df[1], KeyText("STATUS")) > 0
               THEN [main EXCEPT !.pc = "done", !.finalized = "True"]
               ELSE [main EXCEPT !.pc = "done", !.finalized = "False"]
    /\ UNCHANGED final
    /\ UNCHANGED_ByFinalizer

\* ---------------------------------------------------------- scrape_worker

UNCHANGED_ByWorker ==
    UNCHANGED <<ranges_file, max_workers, stub, final, main>>

\* An except clause that tries the page again.
Raise_Retry(rec) == [rec EXCEPT !.pc = "goto"]

\* The except clause of an iteration: the row is marked and handed to write_row.
Raise(rec) ==
    [rec EXCEPT !.pc = "wr_lock", !.handler = "except",
                !.data = [@ EXCEPT !["STATUS"] = Error]]

\* An exception that leaves a scrape_worker with no with block around its
\* browser: the browser stays as it is.
Escape_Leaking(rec) == [rec EXCEPT !.pc = "raised"]

\* An exception that leaves scrape_worker: sync_playwright's exit stops the
\* driver, and the future holds the exception.
Escape(rec) ==
    [rec EXCEPT !.pc = "raised",
                !.browser = IF @ = "open" THEN "stopped" ELSE @]

\* scraper.py 125-140: the six fields in order; the first four queries raise
\* when their region is not there, the last two fall back to "".
extract(data, page) ==
    LET steps == <<[key |-> "OPEN", sel |-> "col_open"],
                   [key |-> "INTRADAY_HIGH", sel |-> "col_high"],
                   [key |-> "INTRADAY_LOW", sel |-> "col_low"],
                   [key |-> "CLOSE", sel |-> "col_ask"]>>
        absent == {i \in 1..Len(steps) : ~page.regions[steps[i].sel].ok}
        stop == IF absent = {} THEN Len(steps) + 1
                ELSE CHOOSE i \in absent : \A j \in absent : i <= j
        pe_text == IF page.regions.col_pe.ok THEN page.regions.col_pe.text
                   ELSE <<>>
        vol_text == IF page.regions.col_volume.ok
                    THEN page.regions.col_volume.text ELSE <<>>
    IN  [raised |-> stop <= Len(steps),
         data |-> [k \in Keys |->
            IF \E i \in 1..(stop - 1) : steps[i].key = k
            THEN LET i == CHOOSE i \in 1..(stop - 1) : steps[i].key = k
                 IN  _extract(page.regions[steps[i].sel].text, HKD, <<>>)
            ELSE IF stop > Len(steps) /\ k = "P/E"
            THEN _extract(pe_text, <<>>, <<"x">>)
            ELSE IF stop > Len(steps) /\ k = "VOLUME"
            THEN _parse_volume(vol_text)
            ELSE data[k]]]

\* scraper.py 88-89: sync_playwright() and p.chromium.launch
W_Launch(w) ==
    /\ worker[w].pc = "launch"
    /\ \E raise \in MayRaise("launch") :
          worker' = [worker EXCEPT ![w] =
             IF raise THEN Escape(@)
             ELSE [@ EXCEPT !.pc = "loop", !.browser = "open"]]
    /\ UNCHANGED <<temp, _csv_lock, print_lock, appended>>
    /\ UNCHANGED_ByWorker

\* scraper.py 91-111: the next code, its data dict, new_context and new_page
W_Loop(w) ==
    /\ worker[w].pc = "loop"
    /\ worker[w].i <= Len(worker[w].stock_codes)
    /\ \E raise \in MayRaise("new_page") :
          worker' = [worker EXCEPT ![w] =
             IF raise THEN Escape(@)
             ELSE [@ EXCEPT !.pc = "goto", !.handler = "try",
                            !.data = NewData(worker[w].stock_codes[worker[w].i])]]
    /\ UNCHANGED <<temp, _csv_lock, print_lock, appended>>
    /\ UNCHANGED_ByWorker

\* scraper.py 113-117: page.goto; a timeout becomes RuntimeError("timeout")
W_Goto(w) ==
    /\ worker[w].pc = "goto"
    /\ \E page \in PagesFor(worker[w].data["CODE"]) :
          worker' = [worker EXCEPT ![w] =
             IF Page(page).goto = "ok"
             THEN [@ EXCEPT !.pc = "is404", !.page = page]
             ELSE Raise([@ EXCEPT !.page = page])]
    /\ UNCHANGED <<temp, _csv_lock, print_lock, appended>>
    /\ UNCHANGED_ByWorker

\* scraper.py 119-120: if _is_404(page): raise RuntimeError("404")
W_Is404(w) ==
    /\ worker[w].pc = "is404"
    /\ worker' = [worker EXCEPT ![w] =
          IF _is_404(Page(@.page)) THEN Raise(@)
          ELSE [@ EXCEPT !.pc = "wait", !.polls = 0]]
    /\ UNCHANGED <<temp, _csv_lock, print_lock, appended>>
    /\ UNCHANGED_ByWorker

\* scraper.py 57-70, 122-123: one polling pass of _wait_for_data, the sleep
\* and the test of the deadline, which has passed after MaxPolls passes at
\* the latest
W_Poll(w) ==
    /\ worker[w].pc = "wait"
    /\ \E expired \in (IF worker[w].polls + 1 >= MaxPolls THEN {TRUE}
                       ELSE {FALSE, TRUE}) :
          worker' = [worker EXCEPT ![w] =
             IF found(PageAt(@.page, @.polls + 1)) >= 2
             THEN [@ EXCEPT !.pc = "extract"]
             ELSE IF expired THEN Raise(@)
             ELSE [@ EXCEPT !.polls = @ + 1]]
    /\ UNCHANGED <<temp, _csv_lock, print_lock, appended>>
    /\ UNCHANGED_ByWorker

\* scraper.py 125-140: the field extraction
W_Extract(w) ==
    /\ worker[w].pc = "extract"
    /\ LET r == extract(worker[w].data, Page(worker[w].page))
       IN  worker' = [worker EXCEPT ![w] =
              IF r.raised THEN Raise([@ EXCEPT !.data = r.data])
              ELSE [@ EXCEPT !.pc = "print_lock", !.data = r.data]]
    /\ UNCHANGED <<temp, _csv_lock, print_lock, appended>>
    /\ UNCHANGED_ByWorker

\* scraper.py 142: with print_lock
W_PrintLock(w) ==
    /\ worker[w].pc = "print_lock"
    /\ CanAcquire(print_lock)
    /\ print_lock' = print_lock \cup {w}
    /\ worker' = [worker EXCEPT ![w].pc = "print"]
    /\ UNCHANGED <<temp, _csv_lock, appended>>
    /\ UNCHANGED_ByWorker

\* A with block that keeps its lock when its body raises.
unwind_holding(lock, t) == lock

\* Leaving a with block over a lock by an exception releases the lock.
unwind(lock, t) == lock \ {t}

\* scraper.py 142-146: print the row and release print_lock; a print that
\* raises leaves the with block for the except clause
W_Print(w) ==
    /\ worker[w].pc = "print"
    /\ \E raise \in MayRaise("print") :
          /\ print_lock' = IF raise THEN unwind(print_lock, w)
                            ELSE print_lock \ {w}
          /\ worker' = [worker EXCEPT ![w] =
                IF raise THEN Raise(@) ELSE [@ EXCEPT !.pc = "wr_lock"]]
    /\ UNCHANGED <<temp, _csv_lock, appended>>
    /\ UNCHANGED_ByWorker

\* io_utils.py 37: write_row: with _csv_lock
WR_Lock(w) ==
    /\ worker[w].pc = "wr_lock"
    /\ CanAcquire(_csv_lock)
    /\ _csv_lock' = _csv_lock \cup {w}
    /\ worker' = [worker EXCEPT ![w].pc = "wr_isfile"]
    /\ UNCHANGED <<temp, print_lock, appended>>
    /\ UNCHANGED_ByWorker

\* io_utils.py 38: file_exists = os.path.isfile(CSV_TEMP_PATH)
WR_IsFile(w) ==
    /\ worker[w].pc = "wr_isfile"
    /\ worker' = [worker EXCEPT ![w].pc = "wr_open",
                                ![w].file_exists = temp.exists]
    /\ UNCHANGED <<temp, _csv_lock, print_lock, appended>>
    /\ UNCHANGED_ByWorker

\* io_utils.py 39-43: open for append, which creates the file; the header, if
\* the file was not there, and the row go to the file object's buffer
\* An open() that raises leaves both with blocks: from the try block
\* (scraper.py 148) for the except clause, from the except clause (154) for
\* the finally clause and then out of scrape_worker.
WR_Open(w) ==
    /\ worker[w].pc = "wr_open"
    /\ \E raise \in MayRaise("write") :
          IF raise
          THEN /\ temp' = temp
               /\ _csv_lock' = unwind(_csv_lock, w)
               /\ worker' = [worker EXCEPT ![w] =
                     IF @.handler = "try"
                     THEN Raise([@ EXCEPT !.file_exists = FALSE])
                     ELSE [@ EXCEPT !.pc = "finally", !.handler = "raising",
                                    !.file_exists = FALSE]]
          ELSE /\ temp' = IF temp.exists THEN temp
                          ELSE [exists |-> TRUE, lines |-> <<>>]
               /\ _csv_lock' = _csv_lock
               /\ worker' = [worker EXCEPT
                     ![w].pc = "wr_close",
                     ![w].buf = (IF worker[w].file_exists THEN <<>>
                                 ELSE <<writeheader>>)
                                \o <<writerow(worker[w].data)>>]
    /\ UNCHANGED <<print_lock, appended>>
    /\ UNCHANGED_ByWorker

\* io_utils.py 39, 37: leaving the two with blocks flushes the buffer to the
\* end of the file and releases _csv_lock; then success += 1 or fail += 1
\* (scraper.py 149, 155). What is written to a file removed meanwhile is lost.
WR_Close(w) ==
    /\ worker[w].pc = "wr_close"
    /\ temp' = IF temp.exists
               THEN [temp EXCEPT !.lines = flush(@, worker[w].buf)]
               ELSE temp
    /\ _csv_lock' = _csv_lock \ {w}
    /\ appended' = Append(appended, [w |-> w, page |-> worker[w].page,
                                     row |-> worker[w].data])
    /\ worker' = [worker EXCEPT ![w] =
          [@ EXCEPT !.pc = "finally", !.buf = <<>>, !.file_exists = FALSE,
                    !.success = IF worker[w].handler = "try" THEN @ + 1 ELSE @,
                    !.fail = IF worker[w].handler = "except" THEN @ + 1 ELSE @]]
    /\ UNCHANGED print_lock
    /\ UNCHANGED_ByWorker

\* scraper.py 157-159: finally: page.close(), context.close(); an exception
\* of the except clause then goes on out of scrape_worker
W_Finally(w) ==
    /\ worker[w].pc = "finally"
    /\ \E raise \in MayRaise("close_page") :
          worker' = [worker EXCEPT ![w] =
             IF raise \/ @.handler = "raising" THEN Escape(@)
             ELSE [@ EXCEPT !.pc = "loop", !.i = @ + 1, !.data = NoData,
                            !.page = "none", !.polls = 0, !.handler = "try"]]
    /\ UNCHANGED <<temp, _csv_lock, print_lock, appended>>
    /\ UNCHANGED_ByWorker

\* scraper.py 161-163: browser.close() and return success, fail
W_Return(w) ==
    /\ worker[w].pc = "loop"
    /\ worker[w].i > Len(worker[w].stock_codes)
    /\ \E raise \in MayRaise("close_browser") :
          worker' = [worker EXCEPT ![w] =
             IF raise THEN Escape(@)
             ELSE [@ EXCEPT !.pc = "returned", !.browser = "closed"]]
    /\ UNCHANGED <<temp, _csv_lock, print_lock, appended>>
    /\ UNCHANGED_ByWorker

\* ------------------------------------------------------------------- Next

Next ==
    \/ M_Load
    \/ M_ResetLock
    \/ M_Reset
    \/ M_Chunk
    \/ M_Submit
    \/ \E w \in 1..Len(worker) : M_Collect(w)
    \/ M_Shutdown
    \/ F_Exists
    \/ F_Read
    \/ F_Write
    \/ F_Remove
    \/ \E w \in 1..Len(worker) : W_Launch(w)
    \/ \E w \in 1..Len(worker) : W_Loop(w)
    \/ \E w \in 1..Len(worker) : W_Goto(w)
    \/ \E w \in 1..Len(worker) : W_Is404(w)
    \/ \E w \in 1..Len(worker) : W_Poll(w)
    \/ \E w \in 1..Len(worker) : W_Extract(w)
    \/ \E w \in 1..Len(worker) : W_PrintLock(w)
    \/ \E w \in 1..Len(worker) : W_Print(w)
    \/ \E w \in 1..Len(worker) : WR_Lock(w)
    \/ \E w \in 1..Len(worker) : WR_IsFile(w)
    \/ \E w \in 1..Len(worker) : WR_Open(w)
    \/ \E w \in 1..Len(worker) : WR_Close(w)
    \/ \E w \in 1..Len(worker) : W_Finally(w)
    \/ \E w \in 1..Len(worker) : W_Return(w)

Spec == Init /\ [][Next]_vars

\* ------------------------------------------------- the end-to-end run

\* scraper.py 95-155: what one iteration makes of a code and the page the
\* site serves for it: the row and the clause that hands it to write_row.
iteration(stock_code, page) ==
    LET data == NewData(stock_code)
        failed == [handler |-> "except",
                   data |-> [data EXCEPT !["STATUS"] = Error]]
    IN  IF page.goto # "ok" THEN failed
        ELSE IF _is_404(page) THEN failed
        ELSE IF found(page) < 2 THEN failed
        ELSE LET r == extract(data, page)
             IN  IF r.raised
                 THEN [handler |-> "except",
                       data |-> [r.data EXCEPT !["STATUS"] = Error]]
                 ELSE [handler |-> "try", data |-> r.data]

\* io_utils.py 35-43: write_row from with _csv_lock to its release
write_row(file, row) ==
    [exists |-> TRUE,
     lines |-> flush(IF file.exists THEN file.lines ELSE <<>>,
                     (IF file.exists THEN <<>> ELSE <<writeheader>>)
                        \o <<writerow(row)>>)]

\* scraper.py 91-159: one iteration of the worker's loop taken whole. Between
\* its steps a worker touches shared state only inside write_row, which runs
\* under _csv_lock, so the iterations of different workers are serializable.
W_Iteration(w) ==
    /\ worker[w].pc = "loop"
    /\ worker[w].i <= Len(worker[w].stock_codes)
    /\ CanAcquire(print_lock)
    /\ CanAcquire(_csv_lock)
    /\ \E new_page \in MayRaise("new_page"), close_page \in MayRaise("close_page"),
          page \in PagesFor(worker[w].stock_codes[worker[w].i]) :
          LET it == iteration(worker[w].stock_codes[worker[w].i], Page(page))
          IN  IF new_page
              THEN /\ worker' = [worker EXCEPT ![w] = Escape(@)]
                   /\ UNCHANGED <<temp, appended>>
              ELSE /\ temp' = write_row(temp, it.data)
                   /\ appended' = Append(appended,
                         [w |-> w, page |-> page, row |-> it.data])
                   /\ worker' = [worker EXCEPT ![w] =
                         LET rec == [@ EXCEPT
                                !.success = IF it.handler = "try" THEN @ + 1 ELSE @,
                                !.fail = IF it.handler = "except" THEN @ + 1 ELSE @]
                         IN  IF close_page THEN Escape(rec)
                             ELSE [rec EXCEPT !.i = @ + 1]]
    /\ UNCHANGED <<_csv_lock, print_lock>>
    /\ UNCHANGED_ByWorker

\* The sum of a counter over the workers in S.
RECURSIVE total(_, _)
total(S, counter) ==
    IF S = {} THEN 0
    ELSE LET w == CHOOSE w \in S : TRUE
         IN  worker[w][counter] + total(S \ {w}, counter)

\* main.py 64-73: the as_completed loop and the exit of the with block, taken
\* whole once every future is done. The loop touches main's totals only. The
\* futures that returned before the first one that raised are counted; with
\* none that raised, all are.
M_CollectAll ==
    /\ main.pc = "collect"
    /\ \A w \in 1..Len(worker) : Finished(w)
    /\ LET raised == {w \in 1..Len(worker) : worker[w].pc = "raised"}
           returned == {w \in 1..Len(worker) : worker[w].pc = "returned"}
       IN  \E S \in (IF raised = {} THEN {returned} ELSE SUBSET returned) :
              main' = [main EXCEPT
                 !.pc = IF raised = {} THEN "finalize" ELSE "crashed",
                 !.error = IF raised = {} THEN "none" ELSE "worker",
                 !.consumed = S,
                 !.total_success = total(S, "success"),
                 !.total_fail = total(S, "fail")]
    /\ UNCHANGED <<ranges_file, max_workers, stub, temp, final, _csv_lock,
                   print_lock, worker, appended>>

\* The run with every iteration, and the collection of the futures, taken
\* whole.
NextE2E ==
    \/ M_Load
    \/ M_ResetLock
    \/ M_Reset
    \/ M_Chunk
    \/ M_Submit
    \/ M_CollectAll
    \/ F_Exists
    \/ F_Read
    \/ F_Write
    \/ F_Remove
    \/ \E w \in 1..Len(worker) : W_Launch(w)
    \/ \E w \in 1..Len(worker) : W_Iteration(w)
    \/ \E w \in 1..Len(worker) : W_Return(w)

\* The end-to-end scenario: the codes 5..12 over a pool of four, a stub with
\* no faults that serves an invalid target for 6 and 11 and a full quote for
\* the rest, and an empty working directory.
InitE2E ==
    /\ ranges_file = <<RangeLine(5, 13)>>
    /\ max_workers = 4
    /\ stub = [faults |-> {},
               site |-> [c \in {str(n) : n \in 5..12} |->
                           IF c = str(6) THEN {"not_found"}
                           ELSE IF c = str(11) THEN {"not_found_text"}
                           ELSE {"full"}],
               default |-> {}]
    /\ temp = NoFile
    /\ final = NoFile
    /\ _csv_lock = {}
    /\ print_lock = {}
    /\ main = InitMain
    /\ worker = <<>>
    /\ appended = <<>>

SpecE2E == InitE2E /\ [][NextE2E]_vars

\* ---------------------------------------------------- the partitioning run

MaxChunkCodes == 9
MaxChunkWorkers == 8

\* main up to the last submit, over code lists of 0..MaxChunkCodes codes and
\* pools of 1..MaxChunkWorkers workers.
InitChunk ==
    /\ ranges_file \in {<<>>} \cup
          {<<RangeLine(1, 1 + len)>> : len \in 1..MaxChunkCodes}
    /\ max_workers \in 1..MaxChunkWorkers
    /\ stub = [faults |-> {}, site |-> <<>>, default |-> {"full"}]
    /\ temp = NoFile
    /\ final = NoFile
    /\ _csv_lock = {}
    /\ print_lock = {}
    /\ main = InitMain
    /\ worker = <<>>
    /\ appended = <<>>

NextChunk ==
    \/ M_Load
    \/ M_ResetLock
    \/ M_Reset
    \/ M_Chunk
    \/ M_Submit

SpecChunk == InitChunk /\ [][NextChunk]_vars

\* The sequences of at most n items of S.
SeqsUpTo(S, n) == UNION {[1..k -> S] : k \in 0..n}

\* ----------------------------------------------------- the finalizer run

MaxRows == 3

\* Codes a temp file may hold: integers out of order, one with a leading
\* zero, a decimal, and one that is no number.
StoreCodes ==
    {str(1), str(2), str(10), <<"0", "7">>, <<"2", ".", "5">>, <<"a">>}

\* The rows a temp file may hold for a code: one of a quote and one of a
\* failure.
StoreRows ==
    {[NewData(c) EXCEPT !["OPEN"] = <<"1", ".", "5", "0">>,
                        !["VOLUME"] = <<"3", "5", "0", "0", "0", "0", "0">>] :
        c \in StoreCodes}
    \cup {[NewData(c) EXCEPT !["STATUS"] = Error] : c \in StoreCodes}

\* sort_and_finalize_csv() called on its own: with no temp file, or with one
\* that write_row made of up to MaxRows rows, and with or without a final
\* file of an earlier run.
InitFinalize ==
    /\ ranges_file = <<>>
    /\ max_workers = 1
    /\ stub = [faults |-> {}, site |-> <<>>, default |-> {}]
    /\ \E rows \in SeqsUpTo(StoreRows, MaxRows) :
          /\ appended = [i \in 1..Len(rows) |->
                            [w |-> MainThread, page |-> "none", row |-> rows[i]]]
          /\ temp \in (IF rows = <<>> THEN {NoFile} ELSE {})
                \cup {[exists |-> TRUE,
                       lines |-> <<writeheader>> \o
                                 [i \in 1..Len(rows) |-> writerow(rows[i])]]}
    /\ final \in {NoFile, StaleFinal}
    /\ _csv_lock = {}
    /\ print_lock = {}
    /\ main = [InitMain EXCEPT !.pc = "finalize"]
    /\ worker = <<>>

NextFinalize ==
    \/ F_Exists
    \/ F_Read
    \/ F_Write
    \/ F_Remove

SpecFinalize == InitFinalize /\ [][NextFinalize]_vars

\* ---------------------------------------------------------- the loader run

MaxLines == 3

\* Lines a ranges file may hold, each with what the loader is to make of it:
\* a range and its codes, a line to skip (blank or comment), or a bad line
\* (no dash, a bound that is no integer, start >= end, a start that is
\* missing before the first dash).
RangeLines ==
    <<[text |-> <<"1", "-", "3">>, kind |-> "range",
       codes |-> <<<<"1">>, <<"2">>>>],
      [text |-> <<"9", "-", "1", "1">>, kind |-> "range",
       codes |-> <<<<"9">>, <<"1", "0">>>>],
      [text |-> <<"9", "9", "-", "1", "0", "1">>, kind |-> "range",
       codes |-> <<<<"9", "9">>, <<"1", "0", "0">>>>],
      [text |-> <<>>, kind |-> "skip",
       codes |-> <<>>],
      [text |-> <<" ", " ">>, kind |-> "skip",
       codes |-> <<>>],
      [text |-> <<"#", " ", "5", "-", "6">>, kind |-> "skip",
       codes |-> <<>>],
      [text |-> <<"5">>, kind |-> "bad",
       codes |-> <<>>],
      [text |-> <<"a", "b", "c", "-", "5">>, kind |-> "bad",
       codes |-> <<>>],
      [text |-> <<"2", "0", "0", "-", "2", "0", "0">>, kind |-> "bad",
       codes |-> <<>>],
      [text |-> <<"8", "-", "6">>, kind |-> "bad",
       codes |-> <<>>],
      [text |-> <<"3", "-", "x">>, kind |-> "bad",
       codes |-> <<>>],
      [text |-> <<"-", "1", "-", "2">>, kind |-> "bad",
       codes |-> <<>>]>>

\* load_stock_codes_from_file on files of at most MaxLines of these lines.
InitLoad ==
    /\ ranges_file \in SeqsUpTo({RangeLines[k].text : k \in 1..Len(RangeLines)},
                                MaxLines)
    /\ max_workers = 1
    /\ stub = [faults |-> {}, site |-> <<>>, default |-> {}]
    /\ temp = NoFile
    /\ final = NoFile
    /\ _csv_lock = {}
    /\ print_lock = {}
    /\ main = InitMain
    /\ worker = <<>>
    /\ appended = <<>>

NextLoad == M_Load

SpecLoad == InitLoad /\ [][NextLoad]_vars

\* ---------------------------------------------------------- the volume run

\* A run of main over one code and one worker, with a stub that has no
\* faults and serves a quote page with any of the volume texts, or with no
\* volume region.
InitVolume ==
    /\ ranges_file = <<RangeLine(9, 10)>>
    /\ max_workers = 1
    /\ stub = [faults |-> {}, site |-> <<>>,
               default |-> {VolumeCases[k].name : k \in 1..Len(VolumeCases)}
                           \cup {"no_volume"}]
    /\ temp = NoFile
    /\ final = NoFile
    /\ _csv_lock = {}
    /\ print_lock = {}
    /\ main = InitMain
    /\ worker = <<>>
    /\ appended = <<>>

SpecVolume == InitVolume /\ [][Next]_vars

\* ------------------------------------------------------------- the locks
\* Two workers over three codes, with a stub whose print and whose open of
\* the temp CSV may raise.
LockFaults == {"print", "write"}

InitLocks ==
    /\ ranges_file = <<RangeLine(9, 12)>>
    /\ max_workers = 2
    /\ stub = [faults |-> LockFaults, site |-> <<>>,
               default |-> {"full", "empty"}]
    /\ temp \in {NoFile, StaleTemp}
    /\ final = NoFile
    /\ _csv_lock = {}
    /\ print_lock = {}
    /\ main = InitMain
    /\ worker = <<>>
    /\ appended = <<>>

SpecLocks == InitLocks /\ [][Next]_vars
\* One worker over two codes, every page of the stub that sets the readiness
\* polling a different case: all regions filled, none, the marker without a
\* price, a region whose query times out, the marker in one region, in two,
\* and regions that fill while the worker polls.
WaitPages ==
    {"full", "empty", "suspended", "partial", "one_marker", "two_markers",
     "late"}

InitWait ==
    /\ ranges_file = <<RangeLine(9, 11)>>
    /\ max_workers = 1
    /\ stub = [faults |-> {}, site |-> <<>>, default |-> WaitPages]
    /\ temp = NoFile
    /\ final = NoFile
    /\ _csv_lock = {}
    /\ print_lock = {}
    /\ main = InitMain
    /\ worker = <<>>
    /\ appended = <<>>

\* A worker thread is scheduled: the pass it is about to make is made in the
\* end.
SpecWait ==
    InitWait /\ [][Next]_vars /\ WF_vars(\E w \in 1..Len(worker) : W_Poll(w))

\* ------------------------------------------------------------- properties

\* main is past reset_temp_csv().
PastReset ==
    main.pc \notin {"load", "reset_lock", "reset"} /\ main.error # "load"

\* The threads inside write_row's with block.
Writers == {w \in 1..Len(worker) :
               worker[w].pc \in {"wr_isfile", "wr_open", "wr_close"}}

\* The lines of a file that are not the header.
DataRows(lines) == {i \in 1..Len(lines) : lines[i] # writeheader}

\* C1: from reset_temp_csv() on, whatever the interleaving of the workers'
\* write_row calls, the temp file holds the header at most once, the header is
\* its first line, and each further line is the serialization of one row that
\* was handed to write_row: the k-th data line is the k-th row appended.
C1_OneHeaderNoTornRow ==
    (PastReset /\ temp.exists /\ temp.lines # <<>>) =>
        /\ temp.lines[1] = writeheader
        /\ \A i \in 2..Len(temp.lines) : temp.lines[i] # writeheader
        /\ Len(temp.lines) = Len(appended) + 1
        /\ \A i \in 1..Len(appended) :
              temp.lines[i + 1] = writerow(appended[i].row)

\* Rows of both workers are in the file and a third write is under way while
\* the other worker is still running.
C1_Witness ==
    /\ temp.exists
    /\ Len(temp.lines) >= 3
    /\ {appended[i].w : i \in 1..Len(appended)} = {1, 2}
    /\ \E w \in Writers : \E v \in 1..Len(worker) :
          v # w /\ worker[v].pc \notin {"returned", "raised"}

\* C2: whenever no write_row call is under way, the temp file (until the
\* finalizer removes it) holds as many data rows, header left out, as
\* write_row calls have returned since reset_temp_csv().
C2_RowCountIsCallCount ==
    (PastReset /\ Writers = {} /\ main.finalized = "none") =>
        Cardinality(DataRows(temp.lines)) = Len(appended)

\* Every worker is done, and three calls were made by two workers.
C2_Witness ==
    /\ Len(worker) = 2
    /\ \A w \in 1..Len(worker) : worker[w].pc = "returned"
    /\ Len(appended) = 3
    /\ Cardinality(DataRows(temp.lines)) = 3

\* sort_and_finalize_csv() has been called.
FinalizerCalled ==
    main.pc \in {"fin_read", "fin_write", "fin_remove"} \/ main.finalized # "none"

\* C3: while sort_and_finalize_csv() runs, and after it, every submitted
\* worker has finished (returned or raised), and every chunk was submitted.
C3_FinalizerAfterWorkers ==
    FinalizerCalled =>
        /\ Len(worker) = Len(main.chunks)
        /\ \A w \in 1..Len(worker) : worker[w].pc \in {"returned", "raised"}

\* The finalizer is about to write the sorted file for two workers' rows.
C3_Witness ==
    /\ main.pc = "fin_write"
    /\ Len(worker) = 2
    /\ Len(appended) >= 2

\* Every chunk was submitted and every worker has finished.
AllWorkersFinished ==
    /\ Len(worker) >= 1
    /\ Len(worker) = Len(main.chunks)
    /\ \A w \in 1..Len(worker) : worker[w].pc \in {"returned", "raised"}

\* C4: once main has come to its end in a run where every worker finished,
\* whether by returning or by raising, sort_and_finalize_csv() was called.
C4_FinalizerCalledAtEnd ==
    (main.pc \in {"done", "crashed"} /\ AllWorkersFinished) => FinalizerCalled

\* The number of chunks chunk() yields for len codes and n workers:
\* the least k with k * size >= len, for the least size with size * n >= len.
ChunkCount(len, n) ==
    LET size == CHOOSE sz \in 1..len : sz * n >= len /\ (sz - 1) * n < len
    IN  CHOOSE k \in 1..len : k * size >= len /\ (k - 1) * size < len

RECURSIVE Concat(_)
Concat(ss) == IF ss = <<>> THEN <<>> ELSE Head(ss) \o Concat(Tail(ss))

\* The items of a sequence.
Items(seq) == {seq[i] : i \in 1..Len(seq)}

\* C6: the chunks chunk() yields are contiguous slices of the code list, taken
\* in order: their concatenation is the list; no two of them share a code;
\* and none is longer than ceil(L / N).
C6_ChunksPartition ==
    LET lst == main.stock_codes
        chunks == main.chunks
    IN  main.pc \in {"submit", "collect"} =>
           /\ Concat(chunks) = lst
           /\ \A j, k \in 1..Len(chunks) :
                 j # k => Items(chunks[j]) \cap Items(chunks[k]) = {}
           /\ \A k \in 1..Len(chunks) :
                 /\ chunks[k] # <<>>
                 /\ (Len(chunks[k]) - 1) * max_workers < Len(lst)

\* A list that does not divide evenly: a short last chunk after full ones.
C6_Witness ==
    /\ main.pc = "collect"
    /\ Len(main.chunks) >= 3
    /\ Len(main.chunks[Len(main.chunks)]) < Len(main.chunks[1])

\* The rows worker w handed to write_row for a code.
RowsOf(w, code) ==
    {j \in 1..Len(appended) :
        appended[j].w = w /\ appended[j].row["CODE"] = code}

\* C7: a worker whose browser was launched and that has finished, in whatever
\* way, has handed exactly one row to write_row for each code of its chunk.
C7_OneRowPerCode ==
    \A w \in 1..Len(worker) :
        (worker[w].pc \in {"returned", "raised"} /\ worker[w].browser # "none") =>
            \A k \in 1..Len(worker[w].stock_codes) :
                Cardinality(RowsOf(w, worker[w].stock_codes[k])) = 1

\* The pages of the stub that load and that the check for an invalid target
\* takes for one: by the address, or by the notice in the content.
InvalidTargetPages == {"not_found", "not_found_text"}

\* C8 as amended: the row written for a code whose page loads and is an
\* invalid target has the status "Error".
C8_InvalidTargetIsError ==
    \A j \in 1..Len(appended) :
        appended[j].page \in InvalidTargetPages =>
            appended[j].row["STATUS"] = Error

\* A row was written for an invalid target that only the content gives away.
C8_Witness ==
    \E j \in 1..Len(appended) :
        /\ appended[j].page = "not_found_text"
        /\ appended[j].row["STATUS"] = Error

\* C8 as stated: the row written for a code whose page loads and is an invalid
\* target has the status "InvalidStockCode".
C8_InvalidTargetIsInvalidStockCode ==
    \A j \in 1..Len(appended) :
        appended[j].page \in InvalidTargetPages =>
            appended[j].row["STATUS"] = InvalidStockCode

\* C9: no row whose six data fields are all "N/A" has the status "Success".
C9_AllNAIsNotSuccess ==
    \A j \in 1..Len(appended) :
        (\A k \in DataKeys : appended[j].row[k] = NA) =>
            appended[j].row["STATUS"] # Success

\* The lines of a file whose last field is a given status.
WithStatus(lines, status) ==
    {i \in 2..Len(lines) : lines[i][Len(FIELDNAMES)] = status}

\* The data lines of a file come in ascending numeric order of their codes.
SortedByCode(lines) ==
    \A i, j \in 2..Len(lines) :
        i < j => DigitsValue(lines[i][1]) < DigitsValue(lines[j][1])

\* What the end-to-end run leaves but for the status of the invalid targets:
\* the finalizer returned True, the temp file is gone, and the final file
\* holds the header and 8 rows in ascending numeric order of the codes, 6 of
\* them with the status "Success".
EndToEndOutput ==
    /\ main.finalized = "True"
    /\ ~temp.exists
    /\ final.exists
    /\ Len(final.lines) = 9
    /\ final.lines[1] = writeheader
    /\ {final.lines[i][1] : i \in 2..9} = {str(n) : n \in 5..12}
    /\ SortedByCode(final.lines)
    /\ Cardinality(WithStatus(final.lines, Success)) = 6

\* C10 as amended: the end-to-end run of 8 codes, 2 of them invalid targets,
\* over 4 workers ends with a final file of exactly 8 rows, 6 with the status
\* "Success" and 2 with the status "Error", sorted numerically by code.
C10_EndToEnd ==
    main.pc = "done" =>
        /\ EndToEndOutput
        /\ Cardinality(WithStatus(final.lines, Error)) = 2

\* The run is over, and the rows had not been appended in the order of their
\* codes.
C10_Witness ==
    /\ main.pc = "done"
    /\ Len(final.lines) = 9
    /\ Len(worker) = 4
    /\ \E i, j \in 1..Len(appended) :
          /\ i < j
          /\ DigitsValue(appended[i].row["CODE"]) >
                DigitsValue(appended[j].row["CODE"])

\* C10 as stated: ... 6 with the status "Success" and 2 with the status
\* "InvalidStockCode", sorted numerically by code.
C10_EndToEndInvalidStockCode ==
    main.pc = "done" =>
        /\ EndToEndOutput
        /\ Cardinality(WithStatus(final.lines, InvalidStockCode)) = 2

\* C11: a call of sort_and_finalize_csv() that finds no temp file returns
\* False, without raising, in the very step of the test, and leaves the final
\* file, be it there or not, and the absence of the temp file as they were.
C11_NoStoreReturnsFalse ==
    [][(main.pc = "finalize" /\ ~temp.exists) =>
          /\ main'.pc = "done"
          /\ main'.finalized = "False"
          /\ final' = final
          /\ temp' = temp]_vars

\* The finalizer returned False on a missing temp file, next to the final
\* file of an earlier run.
C11_Witness ==
    /\ main.pc = "done"
    /\ main.finalized = "False"
    /\ ~temp.exists
    /\ final = StaleFinal

\* The codes of the rows that were appended, and those of the final file.
AppendedCodes == [i \in 1..Len(appended) |-> appended[i].row["CODE"]]

FinalCodes == [i \in 1..(Len(final.lines) - 1) |-> final.lines[i + 1][1]]

\* The finalizer has returned from a call that found a temp file.
FinalizedStore == main.pc = "done" /\ Len(appended) >= 1

\* C12: a call of sort_and_finalize_csv() on a temp file returns True, and
\* the codes of the final file are in ascending numeric order when every code
\* of the temp file parses as an integer, and in ascending lexical order of
\* their text when some code does not.
C12_NumericElseLexical ==
    FinalizedStore =>
        /\ main.finalized = "True"
        /\ Len(FinalCodes) = Len(AppendedCodes)
        /\ IF \A i \in 1..Len(AppendedCodes) : int(AppendedCodes[i]).ok
           THEN \A i, j \in 1..Len(FinalCodes) :
                   i < j => int(FinalCodes[i]).val <= int(FinalCodes[j]).val
           ELSE \A i, j \in 1..Len(FinalCodes) :
                   i < j => TextLeq(FinalCodes[i], FinalCodes[j])

\* C13: after a call of sort_and_finalize_csv() that returned True, the data
\* lines of the final file are the rows that were in the temp file, each as
\* it was appended, in some order: none added, none dropped, none merged.
C13_RowsArePermutation ==
    (FinalizedStore /\ main.finalized = "True") =>
        /\ final.lines[1] = writeheader
        /\ Len(final.lines) = Len(appended) + 1
        /\ \E p \in Permutations(1..Len(appended)) :
              \A i \in 1..Len(appended) :
                  final.lines[i + 1] = writerow(appended[p[i]].row)

\* The threads whose next step reads, creates, extends or removes the temp
\* file: main in reset_temp_csv() and in sort_and_finalize_csv() up to the
\* removal, and a worker in write_row from the isfile() test to the flush.
StoreUsers ==
    (IF main.pc \in {"reset", "finalize", "fin_read", "fin_remove"}
     THEN {MainThread} ELSE {})
    \cup Writers

\* C14: every thread that is about to touch the temp file holds _csv_lock.
C14_StoreOnlyUnderLock == StoreUsers \subseteq _csv_lock

\* The browser of a worker at each place of its run: none before the launch,
\* one open browser from the launch to the end of the loop, and none left
\* open once the call has returned (closed) or raised (stopped with the
\* driver, or never launched).
SessionHeld ==
    \A w \in 1..Len(worker) :
        /\ worker[w].pc = "launch" => worker[w].browser = "none"
        /\ worker[w].pc \notin {"launch", "returned", "raised"} =>
              worker[w].browser = "open"
        /\ worker[w].pc = "returned" => worker[w].browser = "closed"
        /\ worker[w].pc = "raised" => worker[w].browser \in {"none", "stopped"}

\* A browser is opened only by the launch at the start of a call, and a call
\* never comes back to its launch.
SessionStep ==
    \A w \in 1..Len(worker) :
        /\ (worker[w].browser # "open" /\ worker'[w].browser = "open") =>
              worker[w].pc = "launch" /\ worker[w].browser = "none"
        /\ worker[w].pc # "launch" => worker'[w].pc # "launch"

\* C15: each worker launches exactly one browser, at the start of its call,
\* keeps it open for all the codes of its chunk, and has released it whenever
\* the call is over, whether it returned or an exception left the loop.
C15_OneSessionReleased == []SessionHeld /\ [][SessionStep]_vars

\* A worker ended by an exception that left the loop after rows were written,
\* next to a worker that returned.
C15_Witness ==
    \E v, w \in 1..Len(worker) :
        /\ worker[v].pc = "raised"
        /\ worker[v].browser = "stopped"
        /\ worker[v].i >= 1
        /\ \E j \in 1..Len(appended) : appended[j].w = v
        /\ worker[w].pc = "returned"
        /\ worker[w].browser = "closed"

\* The entry of a line of the ranges file in RangeLines.
Entry(text) ==
    RangeLines[CHOOSE k \in 1..Len(RangeLines) : RangeLines[k].text = text]

\* C16: with only range lines, blank lines and comments in the file, the
\* loader returns the codes of the range lines, line after line, each range
\* start-end as the texts of start, start + 1, ..., end - 1; with a bad line
\* anywhere in the file, the load fails and returns no code at all.
C16_LoadAllOrNothing ==
    main.pc # "load" =>
        LET entries == [i \in 1..Len(ranges_file) |-> Entry(ranges_file[i])]
        IN  IF \E i \in 1..Len(entries) : entries[i].kind = "bad"
            THEN /\ main.pc = "crashed"
                 /\ main.error = "load"
                 /\ main.stock_codes = <<>>
            ELSE /\ main.pc # "crashed"
                 /\ main.error = "none"
                 /\ main.stock_codes =
                       Concat([i \in 1..Len(entries) |-> entries[i].codes])

\* A load that failed on a line with start = end that came after a range.
C16_Witness ==
    /\ main.pc = "crashed"
    /\ main.error = "load"
    /\ Len(ranges_file) >= 2
    /\ Entry(ranges_file[1]).kind = "range"
    /\ ranges_file[Len(ranges_file)] = Entry(<<"2", "0", "0", "-", "2", "0", "0">>).text

\* C17: the volume of a row written for a quote page is the number at the
\* head of the volume text times the factor of the unit at its end, whatever
\* other letters the text holds, and "N/A" where the region has no text, no
\* number, or cannot be queried.
C17_VolumeByTrailingUnit ==
    \A j \in 1..Len(appended) :
        /\ appended[j].page = "no_volume" => appended[j].row["VOLUME"] = NA
        /\ \A k \in 1..Len(VolumeCases) :
              appended[j].page = VolumeCases[k].name =>
                  appended[j].row["VOLUME"] = VolumeCases[k].claimed

\* The place of a step in an iteration of the worker's loop.
StepRank(pc) ==
    CASE pc = "loop" -> 0
      [] pc = "goto" -> 1
      [] pc = "is404" -> 2
      [] pc = "wait" -> 3
      [] pc = "extract" -> 4
      [] pc = "print_lock" -> 5
      [] pc = "print" -> 6
      [] pc = "wr_lock" -> 7
      [] pc = "wr_isfile" -> 8
      [] pc = "wr_open" -> 9
      [] pc = "wr_close" -> 10
      [] pc = "finally" -> 11
      [] OTHER -> 12

\* The pages of the stub by what they are: those whose navigation fails, and
\* those that show the currency marker in two or more of the five regions.
UnreachablePages == {"timeout", "broken"}

FilledPages == {"full", "not_found_text", "suspended", "partial"}

\* Where a worker stands tells what its page has passed: the check for an
\* invalid target comes only after a navigation that succeeded, the polling
\* only after that check found nothing, the extraction only on a page that
\* was ready; and a row has the status "Success" only if its page passed
\* all of these and every region of the four prices could be read.
StepsPassed ==
    /\ \A w \in 1..Len(worker) :
          /\ worker[w].pc = "is404" => worker[w].page \notin UnreachablePages
          /\ worker[w].pc = "wait" =>
                worker[w].page \notin UnreachablePages \cup InvalidTargetPages
          /\ worker[w].pc \in {"extract", "print_lock", "print"} =>
                worker[w].page \in FilledPages \ InvalidTargetPages
          /\ worker[w].pc \in {"print_lock", "print"} =>
                worker[w].page # "partial"
    /\ \A j \in 1..Len(appended) :
          appended[j].row["STATUS"] = Success =>
              appended[j].page \in {"full", "suspended"}

\* Within one code a worker only moves forward through navigate, check,
\* poll, extract, print, append, close, repeating nothing but the polling
\* pass; it comes to the next code only from the finally clause.
StepOrder ==
    \A w \in 1..Len(worker) :
        (worker'[w] # worker[w] /\ worker[w].pc # "launch"
            /\ worker'[w].pc \notin {"returned", "raised"}) =>
            \/ /\ worker'[w].i = worker[w].i
               /\ StepRank(worker'[w].pc) >= StepRank(worker[w].pc)
               /\ StepRank(worker'[w].pc) = StepRank(worker[w].pc) =>
                     worker[w].pc = "wait"
            \/ /\ worker[w].pc = "finally"
               /\ worker'[w].pc = "loop"
               /\ worker'[w].i = worker[w].i + 1

\* C18: for each code the worker navigates once, then checks for an invalid
\* target, then polls for readiness, then extracts, then appends, in this
\* order and with no step taken after an earlier one failed, other than the
\* append of the failure row; a row with the status "Success" is appended
\* only for a page that passed them all.
C18_FixedStepOrder == []StepsPassed /\ [][StepOrder]_vars

\* A worker extracts the fields of its second code after the navigation to
\* its first one failed.
C18_Witness ==
    \E w \in 1..Len(worker) :
        /\ worker[w].pc = "extract"
        /\ worker[w].i = 2
        /\ \E j \in 1..Len(appended) :
              appended[j].w = w /\ appended[j].page = "timeout"

\* C19: the readiness polling ends for every page; it reports "ready" at the
\* end of the first pass in which two or more of the five polled regions hold
\* the marker, without polling again, and "not ready" (the worker then raises)
\* only after passes that all found fewer than two; a region whose query
\* fails counts as not holding the marker and the pass goes on to the next
\* region.
MarkerRegions(name, pass) ==
    CASE name = "full" -> 4
      [] name = "empty" -> 0
      [] name = "suspended" -> 4
      [] name = "partial" -> 3
      [] name = "one_marker" -> 1
      [] name = "two_markers" -> 2
      [] name = "late" -> IF pass < MaxPolls THEN 0 ELSE 4
      [] OTHER -> 0

WaitStep ==
    \A w \in 1..Len(worker) :
        (worker[w].pc = "wait" /\ worker'[w] # worker[w]) =>
            IF MarkerRegions(worker[w].page, worker[w].polls + 1) >= 2
            THEN /\ worker'[w].pc = "extract"
                 /\ worker'[w].handler = "try"
            ELSE \/ /\ worker'[w].pc = "wait"
                    /\ worker'[w].polls = worker[w].polls + 1
                 \/ /\ worker'[w].pc = "wr_lock"
                    /\ worker'[w].handler = "except"

WaitEnds ==
    \A w \in 1..MaxWorkers :
        (w <= Len(worker) /\ worker[w].pc = "wait")
            ~> (w <= Len(worker) /\ worker[w].pc # "wait")

C19_WaitForData ==
    /\ [][WaitStep]_vars
    /\ [](\A w \in 1..Len(worker) :
            worker[w].pc = "wait" => worker[w].polls < MaxPolls)
    /\ WaitEnds

\* A worker left the polling for the extraction after more than one pass.
C19_Witness ==
    \E w \in 1..Len(worker) :
        /\ worker[w].pc = "extract"
        /\ worker[w].page = "late"
        /\ worker[w].polls > 0

\* C20: reset_temp_csv() is entered once, from the loading, and main never
\* comes back to it; it ends with the temp file gone; the first worker is
\* started after it, with no temp file; and what the finalizer reads from the
\* temp file, whatever an earlier run left there, is the header once followed
\* by the rows appended in this run, in the order of their appending.
BeforeWorkers == {"load", "reset_lock", "reset"}

ResetStep ==
    /\ (main'.pc = "reset_lock" /\ main.pc # "reset_lock") => main.pc = "load"
    /\ main.pc \notin BeforeWorkers => main'.pc \notin BeforeWorkers
    /\ (main.pc = "reset" /\ main'.pc # "reset") =>
          main'.pc = "chunk" /\ ~temp'.exists /\ MainThread \notin _csv_lock'
    /\ (worker = <<>> /\ worker' # <<>>) =>
          PastReset /\ ~temp.exists /\ ~temp'.exists

ReadByFinalizer ==
    main.pc = "fin_write" =>
        /\ Len(main.df) = Len(appended) + 1
        /\ main.df[1] = writeheader
        /\ \A i \in 1..Len(appended) :
              /\ main.df[i + 1] = writerow(appended[i].row)
              /\ main.df[i + 1] # writeheader
              /\ main.df[i + 1] # StaleRow

C20_ResetOnceBeforeWorkers ==
    /\ [][ResetStep]_vars
    /\ [](worker # <<>> => PastReset)
    /\ []ReadByFinalizer

\* The finalizer has read the temp file in a run that found the final file of
\* an earlier run in place and whose two workers appended rows.
C20_Witness ==
    /\ main.pc = "fin_write"
    /\ final = StaleFinal
    /\ Len(main.df) >= 3
    /\ {appended[i].w : i \in 1..Len(appended)} = {1, 2}

\* C21: a thread that is about to acquire _csv_lock or print_lock holds
\* neither of them, no thread holds both, a lock is held only by a thread
\* inside the block the lock guards (so it is released on every way out of
\* the block, a raising print or write included), and as long as a worker is
\* unfinished some unfinished worker is not waiting for a lock.
Holds(t) == t \in _csv_lock \cup print_lock

Blocked(w) ==
    \/ worker[w].pc = "print_lock" /\ ~CanAcquire(print_lock)
    \/ worker[w].pc = "wr_lock" /\ ~CanAcquire(_csv_lock)

Unfinished == {w \in 1..Len(worker) : ~Finished(w)}

C21_NoNestedLockNoDeadlock ==
    /\ \A w \in 1..Len(worker) :
          /\ worker[w].pc \in {"print_lock", "wr_lock"} => ~Holds(w)
          /\ ~(w \in _csv_lock /\ w \in print_lock)
          /\ w \in print_lock => worker[w].pc = "print"
          /\ w \in _csv_lock =>
                worker[w].pc \in {"wr_isfile", "wr_open", "wr_close"}
    /\ main.pc = "reset_lock" => ~Holds(MainThread)
    /\ MainThread \in _csv_lock => main.pc = "reset"
    /\ MainThread \notin print_lock
    /\ Unfinished # {} => \E w \in Unfinished : ~Blocked(w)

\* A worker whose print or write raised on a full page waits for _csv_lock
\* in its except clause while the other worker is inside write_row.
C21_Witness ==
    \E w, v \in 1..Len(worker) :
        /\ w # v
        /\ worker[w].pc = "wr_lock"
        /\ worker[w].handler = "except"
        /\ worker[w].page = "full"
        /\ v \in _csv_lock

\* C22: a worker that returned reports success + fail equal to the length of
\* its partition, success equal to the number of rows it appended with status
\* Success and fail to the number it appended with another status; the totals
\* main has summed once every worker returned add up to the length of the
\* list of codes, and the finalizer's Total and Success counts of the sorted
\* frame are that sum and main's total_success.
AppendedBy(w, statuses) ==
    Cardinality({i \in 1..Len(appended) :
        appended[i].w = w /\ appended[i].row["STATUS"] \in statuses})

C22_CountsAgree ==
    /\ \A w \in 1..Len(worker) :
          worker[w].pc = "returned" =>
             /\ worker[w].success + worker[w].fail = Len(worker[w].stock_codes)
             /\ worker[w].success = AppendedBy(w, {Success})
             /\ worker[w].fail = AppendedBy(w, {Error})
    /\ (main.pc \in {"finalize", "fin_read", "fin_write", "fin_remove", "done"}) =>
          main.total_success + main.total_fail = Len(main.stock_codes)
    /\ (main.pc = "done" /\ main.finalized = "True") =>
          /\ finalizer_counts(final.lines).total =
                main.total_success + main.total_fail
          /\ finalizer_counts(final.lines).success = main.total_success
          /\ finalizer_counts(final.lines).error = main.total_fail

\* The finalizer is through after two workers returned with successes and
\* failures between them.
C22_Witness ==
    /\ main.pc = "done"
    /\ main.finalized = "True"
    /\ Len(worker) = 2
    /\ main.total_success > 0
    /\ main.total_fail > 0
    /\ \E w \in 1..Len(worker) : worker[w].success + worker[w].fail > 1

\* C23: every row handed to write_row with status Error has "N/A" in all six
\* data fields Open, High, Low, Close, PriceEarnings and Volume, also when
\* the failure came part-way through the extraction.
SixFields ==
    {"OPEN", "INTRADAY_HIGH", "INTRADAY_LOW", "CLOSE", "P/E", "VOLUME"}

C23_ErrorRowAllNA ==
    \A i \in 1..Len(appended) :
        appended[i].row["STATUS"] = Error =>
            \A k \in SixFields : appended[i].row[k] = NA

\* C24: the final file does not depend on the order in which the workers
\* appended their rows: with the rows of the run (their codes pairwise
\* distinct) stored in any other order, the finalizer has one possible
\* output, and it is the final file of this run.
StoreInOrder(p) ==
    <<writeheader>> \o [i \in 1..Len(appended) |-> writerow(appended[p[i]].row)]

C24_OutputIndependentOfAppendOrder ==
    (main.pc = "done" /\ main.finalized = "True") =>
        /\ \A i, j \in 1..Len(appended) :
              i # j => appended[i].row["CODE"] # appended[j].row["CODE"]
        /\ \A p \in Permutations(1..Len(appended)) :
              /\ finalize_frame(StoreInOrder(p)).ok
              /\ finalize_frame(StoreInOrder(p)).outs = {final.lines}

\* The run of two workers is over with its final file written, and the rows
\* had been appended in another order than that of their codes.
C24_Witness ==
    /\ main.pc = "done"
    /\ main.finalized = "True"
    /\ Len(appended) = 3
    /\ {appended[i].w : i \in 1..Len(appended)} = {1, 2}
    /\ DigitsValue(appended[1].row["CODE"]) > DigitsValue(appended[3].row["CODE"])
    /\ \A i \in 2..3 :
          DigitsValue(final.lines[i][1]) < DigitsValue(final.lines[i + 1][1])

====
